---- MODULE Spec2Model ----
(***************************************************************************)
(* State-machine model of the CARLA client scripts under src/scripts:      *)
(*   - route_plan.py: select_map_name, get_start_end_waypoints             *)
(*   - closed_loop_drive.py: map selection, driver selection, capture loop *)
(*   - 2Dplot_route.py: connect_and_load_map, choose_start_end,            *)
(*     _walk_lane, get_map_bounds, capture_aerial's extent                 *)
(*   - run_pcla_vision.py: walker state machine, frame capture loop        *)
(*   - rig_capture_one.py, weather_capture.py, actor_capture.py: world     *)
(*     settings, spawned actors, warm-up, capture loop, cleanup            *)
(* Python strings are sequences of one-character strings; a Python         *)
(* optional is a set: None is {}, a value v is {v}.  Distances are in      *)
(* decimetres (0.5 m = 5 dm).  Each script has its own specification; the  *)
(* variables of the other scripts stay at their idle values.               *)
(***************************************************************************)
EXTENDS Integers, Sequences, FiniteSets, TLC

VARIABLES
    \* ---- pure functions (route_plan / inline copies): one call at a time
    fcall,      \* the call being made: [op, inputs...]
    fret,       \* its result, or Pending before the function has run
    \* ---- run_pcla_vision.py: walker state machine of the main loop
    trigger_step,   \* None, or the step at which the ego first came within trigger distance
    walkers,        \* index of each spawned walker |-> its dict (state, target,
                    \* pause_ticks_left), with two history fields: dist (the distance last
                    \* measured for it) and prev (its state before its latest change)
    \* ---- run_pcla_vision.py: main loop and camera callbacks
    ppc,            \* where the main thread is
    max_steps,      \* args.max_steps
    step,           \* step: main-loop iterations completed
    save_step,      \* save_step[0]
    frame_ready,    \* threading.Event of the observer camera
    chase_ready,    \* threading.Event of the chase camera
    source_ready,   \* threading.Event of the source cameras
    source_buffer,  \* source_buffer["rgb"]: None, or the world tick whose image it holds
    inflight,       \* images the simulator has produced and not yet handed to a callback
    cb,             \* per camera: None, or the running callback's [tick, i]
    saved,          \* per camera, the file written last: None, or [tick, idx] = the image of
                    \* world tick `tick` was saved as frame_<idx>.png
    pticks,         \* world.tick() calls of the main loop
    exit_reason,    \* how the main loop ended
    reported,       \* the frame count of the final "Captured %d frames" line
    \* ---- closed_loop_drive.py: driver selection, warm-up, capture loop, cleanup
    dpc,                \* where main is
    behavior_importable,\* agents.navigation.behavior_agent can be imported (by any path)
    basic_importable,   \* agents.navigation.basic_agent can be imported (by any path)
    basic_tried,        \* _get_basic_agent was called
    agent_kind,         \* "none", "behavior" or "basic": the class of `agent`
    use_agent,          \* use_agent
    autopilot,          \* vehicle.set_autopilot(True) was called
    warm,               \* w: warm-up ticks completed
    frame_index,        \* i (and frame_index[0]): frames captured so far
    dticks,             \* world.tick() calls of the capture loop that returned
    control_applied,    \* vehicle.apply_control(agent.run_step()) ran in this iteration
    done_early,         \* done_early
    exit_kind,          \* how the try block was left
    world_state,        \* the simulator: camera and vehicle alive, settings, weather
    attempted,          \* cleanup steps of the finally block that were started
    cleanup_raised,     \* cleanup steps that raised (and were swallowed)
    \* ---- rig_capture_one.py, weather_capture.py, actor_capture.py: main
    script,             \* which of the three scripts runs
    cpc,                \* where main is
    cpreset,            \* args.preset ("none" for rig_capture_one, which has no presets)
    num_frames,         \* num_frames
    settings_before,    \* the world settings in effect when the script started
    server_settings,    \* the world settings in effect in the simulator now
    heap,               \* the carla.WorldSettings objects of the Python process, by identity
    settings,           \* settings: None, or the identity of the object the name is bound to
    original_settings,  \* original_settings: likewise
    actors,             \* rig_capture_one's list `actors`
    alive,              \* actors spawned by the script and alive in the simulator
    rig_saved,          \* keys of rig_capture_one's dict `saved`
    cwarm,              \* warm-up ticks completed
    cframe,             \* i of the capture loop: frames captured so far
    capplied,           \* None, or the settings passed to world.apply_settings in `finally`
    cattempted,         \* cleanup steps of the finally block that were started
    craised,            \* cleanup steps that raised (and were swallowed)
    cexit               \* how main left its body

pureVars == <<fcall, fret>>
walkerVars == <<trigger_step, walkers>>
pclaVars == <<ppc, max_steps, step, save_step, frame_ready, chase_ready, source_ready,
              source_buffer, inflight, cb, saved, pticks, exit_reason, reported>>

driveVars == <<dpc, behavior_importable, basic_importable, basic_tried, agent_kind,
               use_agent, autopilot, warm, frame_index, dticks, control_applied,
               done_early, exit_kind, world_state, attempted, cleanup_raised>>

captureVars == <<script, cpc, cpreset, num_frames, settings_before, server_settings, heap,
                 settings, original_settings, actors, alive, rig_saved, cwarm, cframe,
                 capplied, cattempted, craised, cexit>>

vars == <<pureVars, walkerVars, pclaVars, driveVars, captureVars>>
notPure == <<walkerVars, pclaVars, driveVars, captureVars>>
notWalker == <<pureVars, driveVars, captureVars>>
notPcla == <<pureVars, walkerVars, driveVars, captureVars>>
notDrive == <<pureVars, walkerVars, pclaVars, captureVars>>
notCapture == <<pureVars, walkerVars, pclaVars, driveVars>>

\* A Python optional: None is the empty set, a value v is {v}
None == {}
Some(v) == {v}
Val(opt) == CHOOSE v \in opt : TRUE

Pending == [kind |-> "pending"]

Min(a, b) == IF a <= b THEN a ELSE b

(***************************************************************************)
(* Strings                                                                 *)
(***************************************************************************)
Town == <<"T", "o", "w", "n">>
Town01 == Town \o <<"0", "1">>
Town02 == Town \o <<"0", "2">>
Town03 == Town \o <<"0", "3">>
Town05 == Town \o <<"0", "5">>
Town10 == Town \o <<"1", "0">>
Town10HD == Town10 \o <<"H", "D">>
Town10_Opt == Town10 \o <<"_", "O", "p", "t">>
MapsDir == <<"/", "G", "a", "m", "e", "/", "C", "a", "r", "l", "a", "/", "M", "a", "p", "s", "/">>

\* str.split("/")[-1]: the text after the last "/", the whole string when there is none
SplitLast(s) ==
    LET slashes == {i \in 1..Len(s) : s[i] = "/"}
        last == IF slashes = {} THEN 0
                ELSE CHOOSE i \in slashes : \A j \in slashes : j <= i
    IN SubSeq(s, last + 1, Len(s))

\* "/" in s
HasSlash(s) == \E i \in 1..Len(s) : s[i] = "/"

\* x in list
InList(x, list) == \E i \in 1..Len(list) : list[i] = x

\* next((m for m in preferred if m in available), default)
RECURSIVE NextPreferred(_, _, _)
NextPreferred(preferred, available, default) ==
    IF preferred = <<>> THEN default
    ELSE IF InList(Head(preferred), available) THEN Head(preferred)
    ELSE NextPreferred(Tail(preferred), available, default)

(***************************************************************************)
(* route_plan.py                                                           *)
(***************************************************************************)
PREFERRED_MAPS == <<Town10, Town10HD, Town10_Opt, Town01, Town02>>
END_SPAWN_INDEX == 10

short_map_name(map_path) ==
    IF HasSlash(map_path) THEN SplitLast(map_path) ELSE map_path

RECURSIVE ShortAvailable(_)
ShortAvailable(available_maps) ==
    IF available_maps = <<>> THEN <<>>
    ELSE <<short_map_name(Head(available_maps))>> \o ShortAvailable(Tail(available_maps))

\* preferred = preferred or PREFERRED_MAPS: None and the empty list are both falsy
PreferredOrDefault(preferred) ==
    IF preferred = None \/ Val(preferred) = <<>> THEN PREFERRED_MAPS ELSE Val(preferred)

select_map_name(available_maps, preferred) ==
    LET pref == PreferredOrDefault(preferred)
        short_available == ShortAvailable(available_maps)
    IN NextPreferred(pref, short_available,
                     IF short_available # <<>> THEN short_available[1] ELSE Town01)


\* get_start_end_waypoints: carla_map.get_waypoint(loc, project_to_road=True,
\* lane_type=Driving) is the simulator's snapping of a location to a lane
GetWaypoint(location) == [snapped_from |-> location]

\* spawns[k] with Python indexing: 0-based, negative k counts from the end
ValidIndex(list, k) == -Len(list) <= k /\ k < Len(list)
PyIndex(list, k) == IF k >= 0 THEN list[k + 1] ELSE list[Len(list) + k + 1]

EndIdx_NoClamp(spawns, end_spawn_index) ==
    IF end_spawn_index = None THEN END_SPAWN_INDEX ELSE Val(end_spawn_index)

EndIdx(spawns, end_spawn_index) ==
    Min(IF end_spawn_index = None THEN END_SPAWN_INDEX ELSE Val(end_spawn_index),
        Len(spawns) - 1)

get_start_end_waypoints(spawns, end_spawn_index) ==
    IF spawns = <<>>
    THEN [kind |-> "raise", exc |-> "RuntimeError", msg |-> "No spawn points on this map."]
    ELSE LET end_idx == EndIdx(spawns, end_spawn_index)
         IN IF ~ValidIndex(spawns, end_idx)
            THEN [kind |-> "raise", exc |-> "IndexError", msg |-> "list index out of range"]
            ELSE [kind |-> "return",
                  start_wp |-> GetWaypoint(PyIndex(spawns, 0)),
                  end_wp |-> GetWaypoint(PyIndex(spawns, end_idx)),
                  end_idx |-> end_idx]

(***************************************************************************)
(* closed_loop_drive.py / 2Dplot_route.py: inline map selection            *)
(***************************************************************************)
DRIVE_PREFERRED_Town01First == <<Town01, Town10, Town10HD, Town10_Opt, Town02>>
DRIVE_PREFERRED == <<Town10, Town10HD, Town10_Opt, Town01, Town02>>
PLOT_PREFERRED == <<Town10, Town10HD, Town10_Opt, Town01, Town02>>

\* available = [m.split("/")[-1] for m in client.get_available_maps()]
RECURSIVE DriveAvailable(_)
DriveAvailable(maps) ==
    IF maps = <<>> THEN <<>>
    ELSE <<SplitLast(Head(maps))>> \o DriveAvailable(Tail(maps))

closed_loop_drive_map_name(maps) ==
    LET available == DriveAvailable(maps)
    IN NextPreferred(DRIVE_PREFERRED, available,
                     IF available # <<>> THEN available[1] ELSE Town01)

_short_map_name(path) == IF HasSlash(path) THEN SplitLast(path) ELSE path

RECURSIVE PlotAvailable(_)
PlotAvailable(maps) ==
    IF maps = <<>> THEN <<>>
    ELSE <<_short_map_name(Head(maps))>> \o PlotAvailable(Tail(maps))

connect_and_load_map(maps) ==
    LET available == PlotAvailable(maps)
    IN NextPreferred(PLOT_PREFERRED, available,
                     IF available # <<>> THEN available[1] ELSE Town01)

(***************************************************************************)
(* 2Dplot_route.py / closed_loop_drive.py: start and end of the route      *)
(***************************************************************************)
PLOT_END_SPAWN_INDEX == 10      \* 2Dplot_route.END_SPAWN_INDEX
DRIVE_END_SPAWN_INDEX == 10     \* closed_loop_drive.END_SPAWN_INDEX

PlotEndIdx_Last(spawns) == Len(spawns) - 1

\* end_idx = min(END_SPAWN_INDEX, len(spawns) - 1)
PlotEndIdx(spawns) == Min(PLOT_END_SPAWN_INDEX, Len(spawns) - 1)

\* choose_start_end: with fewer than two spawns it reads spawns[0] and returns it twice
choose_start_end(spawns) ==
    IF Len(spawns) < 2
    THEN IF ~ValidIndex(spawns, 0)
         THEN [kind |-> "raise", exc |-> "IndexError", msg |-> "list index out of range"]
         ELSE [kind |-> "return",
               start_wp |-> GetWaypoint(PyIndex(spawns, 0)),
               end_wp |-> GetWaypoint(PyIndex(spawns, 0))]
    ELSE LET end_idx == PlotEndIdx(spawns)
         IN [kind |-> "return",
             start_wp |-> GetWaypoint(PyIndex(spawns, 0)),
             end_wp |-> GetWaypoint(PyIndex(spawns, end_idx))]

\* closed_loop_drive.main: start_spawn, end_spawn and the waypoints snapped from them
closed_loop_drive_start_end(spawns) ==
    IF spawns = <<>>
    THEN [kind |-> "raise", exc |-> "RuntimeError", msg |-> "No spawn points on this map."]
    ELSE LET end_idx == Min(DRIVE_END_SPAWN_INDEX, Len(spawns) - 1)
         IN [kind |-> "return",
             start_wp |-> GetWaypoint(PyIndex(spawns, 0)),
             end_wp |-> GetWaypoint(PyIndex(spawns, end_idx))]

(***************************************************************************)
(* weather_capture.py: the sweep of one weather parameter.  The values are *)
(* float(n) of integers n of small magnitude, which are exact: a value is  *)
(* modelled by the integer it equals.                                      *)
(***************************************************************************)
PRESETS ==
    [p \in {"sunset", "cloudiness", "wetness", "precipitation"} |->
        CASE p = "sunset" ->
               [param |-> "sun_altitude_angle", start |-> 45, end |-> -18, step |-> 1,
                num_frames |-> 64]
          [] p = "cloudiness" ->
               [param |-> "cloudiness", start |-> 0, end |-> 100, step |-> 2,
                num_frames |-> 51]
          [] p = "wetness" ->
               [param |-> "wetness", start |-> 0, end |-> 100, step |-> 2,
                num_frames |-> 51]
          [] p = "precipitation" ->
               [param |-> "precipitation", start |-> 0, end |-> 100, step |-> 2,
                num_frames |-> 51]]

get_value_for_frame_Up(preset, i) == preset.start + i * preset.step

get_value_for_frame(preset, i) ==
    IF preset.start > preset.end
    THEN preset.start - i * preset.step
    ELSE preset.start + i * preset.step

(***************************************************************************)
(* 2Dplot_route.py: _walk_lane.  Coordinates and step are whole metres; a  *)
(* location is [x, y] in the simulator's frame, a plotted point <<x, -y>>. *)
(***************************************************************************)
DENSE_STEP == 2     \* DENSE_STEP = 2.0

Max(a, b) == IF a >= b THEN a ELSE b

\* int(a.distance(b) / step) for step > 0: the largest k with k * step <= |a - b|
IntDistanceOverStep(a, b, by) ==
    LET d2 == (a.x - b.x) * (a.x - b.x) + (a.y - b.y) * (a.y - b.y)
    IN CHOOSE k \in 0..d2 : (k * by) * (k * by) <= d2 /\ d2 < ((k + 1) * by) * ((k + 1) * by)

walk_max_steps(wp_start, wp_end, by) == Max(IntDistanceOverStep(wp_start, wp_end, by) + 1, 2)

PlotPoint_NoFlip(loc) == <<loc.x, loc.y>>

\* (loc.x, -loc.y)
PlotPoint(loc) == <<loc.x, 0 - loc.y>>

\* what wp.next(step) can return: no successor, one, or several at a junction
WaypointNext(loc, by) ==
    { <<>>,
      <<[x |-> loc.x + by, y |-> loc.y]>>,
      <<[x |-> loc.x, y |-> loc.y + by], [x |-> loc.x + by, y |-> loc.y]>> }

\* the locals of _walk_lane before the loop: pts = [], wp = wp_start, no iteration run
WalkStart(wp_start) == [kind |-> "loop", pts |-> <<>>, wp |-> wp_start, n |-> 0, broke |-> FALSE]

(***************************************************************************)
(* 2Dplot_route.py: get_map_bounds and the extent of capture_aerial.  Map  *)
(* coordinates are even numbers of metres, so that centres and half sides  *)
(* are whole numbers and x / 2 is exact.                                   *)
(***************************************************************************)
MARGIN_METERS == 20     \* margin_meters=20

SetMin(S) == CHOOSE v \in S : \A w \in S : v <= w
SetMax(S) == CHOOSE v \in S : \A w \in S : v >= w

\* topology is a list of pairs <<w0, w1>> of waypoint locations; min() and max() of an
\* empty list raise ValueError
get_map_bounds(topology) ==
    LET ws == UNION {{topology[k][1], topology[k][2]} : k \in 1..Len(topology)}
        xs == {w.x : w \in ws}
        ys == {0 - w.y : w \in ws}
    IN IF topology = <<>>
       THEN [kind |-> "raise", exc |-> "ValueError", msg |-> "min() arg is an empty sequence"]
       ELSE [kind |-> "return",
             x_min |-> SetMin(xs) - MARGIN_METERS, x_max |-> SetMax(xs) + MARGIN_METERS,
             y_min |-> SetMin(ys) - MARGIN_METERS, y_max |-> SetMax(ys) + MARGIN_METERS]

\* side = max(x_max - x_min, y_max - y_min)
AerialSide(x_min, x_max, y_min, y_max) == Max(x_max - x_min, y_max - y_min)

\* the extent capture_aerial returns when the image arrives: (x_lo, x_hi, y_lo, y_hi)
aerial_extent(x_min, x_max, y_min, y_max) ==
    LET cx == (x_min + x_max) \div 2
        cy_world == 0 - ((y_min + y_max) \div 2)
        side == AerialSide(x_min, x_max, y_min, y_max)
        half_side == side \div 2
        y_plot_top == (0 - cy_world) + half_side
        y_plot_bottom == (0 - cy_world) - half_side
    IN <<cx - half_side, cx + half_side, y_plot_bottom, y_plot_top>>

(***************************************************************************)
(* run_pcla_vision.py: where the pedestrian crossing is placed             *)
(***************************************************************************)
crossing_waypoint_index(walker_waypoint_index) ==
    IF walker_waypoint_index # None THEN Val(walker_waypoint_index) ELSE 0

(***************************************************************************)
(* run_pcla_vision.py: per-walker state machine (main loop, one iteration) *)
(***************************************************************************)
WALKER_ARRIVAL_THRESHOLD_DM == 5    \* WALKER_ARRIVAL_THRESHOLD_M = 0.5
WALKER_PAUSE_TICKS == 50
WALKER_STAGGER_TICKS == 15
NUM_WALKERS == 10

\* a walker as appended to the list after a successful spawn.  target is "start_loc" or
\* "target_loc": the two carla.Location values are 2 * WALKER_LATERAL_M = 8 m apart, so
\* w["target"] == w["target_loc"] holds exactly when target was set from target_loc
NewWalker ==
    [state |-> "waiting", target |-> "start_loc", pause_ticks_left |-> 0,
     dist |-> -1, prev |-> "none"]

\* state "waiting": start crossing once triggered and the stagger delay has passed
WalkerWaiting(w, index, trig, at_step) ==
    IF trig # None /\ at_step >= Val(trig) + index * WALKER_STAGGER_TICKS
    THEN [w EXCEPT !.state = "cross_to_left", !.target = "target_loc", !.prev = w.state]
    ELSE w

\* state cross_to_left / cross_to_right: arrival within the threshold of w["target"]
WalkerCrossing(w, dist) ==
    IF dist < WALKER_ARRIVAL_THRESHOLD_DM
    THEN [w EXCEPT !.state = "pause", !.pause_ticks_left = WALKER_PAUSE_TICKS,
                   !.dist = dist, !.prev = w.state]
    ELSE [w EXCEPT !.dist = dist]

WalkerPause_SameTarget(w) ==
    LET ticks == w.pause_ticks_left - 1
    IN IF ticks <= 0
       THEN IF w.target = "target_loc"
            THEN [w EXCEPT !.pause_ticks_left = ticks, !.state = "cross_to_left",
                           !.target = "target_loc", !.prev = w.state]
            ELSE [w EXCEPT !.pause_ticks_left = ticks, !.state = "cross_to_right",
                           !.target = "start_loc", !.prev = w.state]
       ELSE [w EXCEPT !.pause_ticks_left = ticks]

\* state "pause": count down, then head for the other side
WalkerPause(w) ==
    LET ticks == w.pause_ticks_left - 1
    IN IF ticks <= 0
       THEN IF w.target = "target_loc"
            THEN [w EXCEPT !.pause_ticks_left = ticks, !.state = "cross_to_right",
                           !.target = "start_loc", !.prev = w.state]
            ELSE [w EXCEPT !.pause_ticks_left = ticks, !.state = "cross_to_left",
                           !.target = "target_loc", !.prev = w.state]
       ELSE [w EXCEPT !.pause_ticks_left = ticks]

StepWalker(w, index, trig, at_step, dist) ==
    IF w.state = "waiting" THEN WalkerWaiting(w, index, trig, at_step)
    ELSE IF w.state \in {"cross_to_left", "cross_to_right"} THEN WalkerCrossing(w, dist)
    ELSE IF w.state = "pause" THEN WalkerPause(w)
    ELSE w

MaxWalkerSteps == 106   \* main-loop iterations modelled (--max-steps)
MaxTriggerStep == 1     \* latest step at which the ego comes within trigger distance

\* which of the NUM_WALKERS spawns succeeded (try_spawn_actor may return None)
SpawnOutcomes == { {}, {0}, {1}, {0, 1}, {NUM_WALKERS - 1} }

\* distances (dm) a walker can be measured at: inside, at and outside the threshold
Dists == {4, 5, 6}

WalkerInit ==
    /\ step = 0
    /\ trigger_step = None
    /\ \E spawned \in SpawnOutcomes : walkers = [i \in spawned |-> NewWalker]

\* one iteration of the main loop, lines 473-498 and step += 1
WalkerLoopIteration ==
    /\ step < MaxWalkerSteps
    /\ \E near \in BOOLEAN, d \in [DOMAIN walkers -> Dists] :
          /\ near => step <= MaxTriggerStep
          /\ IF walkers # << >>    \* crossing_ref_loc is not None and walkers
             THEN LET trig == IF near /\ trigger_step = None THEN Some(step)
                              ELSE trigger_step
                  IN /\ trigger_step' = trig
                     /\ walkers' = [i \in DOMAIN walkers |->
                                      StepWalker(walkers[i], i, trig, step, d[i])]
             ELSE UNCHANGED <<trigger_step, walkers>>
    /\ step' = step + 1
    /\ UNCHANGED <<ppc, max_steps, save_step, frame_ready, chase_ready, source_ready,
                   source_buffer, inflight, cb, saved, pticks, exit_reason, reported>>
    /\ UNCHANGED notWalker

WalkerNext == WalkerLoopIteration

(***************************************************************************)
(* run_pcla_vision.py: main loop (lines 456-559) and the camera callbacks  *)
(* on_image, on_chase_image and the source cameras' _cb, for a run without *)
(* walkers and with one source camera.  The simulator hands each camera    *)
(* its images in tick order, one callback at a time per camera.            *)
(***************************************************************************)
MaxStepsArg == 2    \* largest --max-steps tried
MaxPclaTicks == 2   \* world ticks modelled in one run

Cameras == {"observer", "chase", "source"}

PclaInit ==
    /\ ppc = "loop_head"
    /\ max_steps \in 0..MaxStepsArg
    /\ step = 0 /\ save_step = 0
    /\ frame_ready = FALSE /\ chase_ready = FALSE /\ source_ready = FALSE
    /\ source_buffer = None
    /\ inflight = {}
    /\ cb = [c \in {"observer", "chase"} |-> None]
    /\ saved = [c \in Cameras |-> None]
    /\ pticks = 0
    /\ exit_reason = "running"
    /\ reported = -1

\* while True: if args.max_steps and step >= args.max_steps: break; else clear the events
LoopHead ==
    /\ ppc = "loop_head"
    /\ IF max_steps # 0 /\ step >= max_steps
       THEN /\ ppc' = "finally" /\ exit_reason' = "max_steps"
            /\ UNCHANGED <<frame_ready, chase_ready, source_ready, source_buffer>>
       ELSE /\ ppc' = "prepare"
            /\ frame_ready' = FALSE /\ chase_ready' = FALSE
            /\ source_buffer' = None /\ source_ready' = FALSE
            /\ UNCHANGED exit_reason
    /\ UNCHANGED <<max_steps, step, save_step, inflight, cb, saved, pticks, reported>>
    /\ UNCHANGED notPcla

\* get_action, apply_control, (walkers), save_step[0] = step
SetSaveStep ==
    /\ ppc = "prepare"
    /\ save_step' = step
    /\ ppc' = "tick"
    /\ UNCHANGED <<max_steps, step, frame_ready, chase_ready, source_ready, source_buffer,
                   inflight, cb, saved, pticks, exit_reason, reported>>
    /\ UNCHANGED notPcla

\* world.tick(): every camera produces the image of this tick
WorldTick ==
    /\ ppc = "tick"
    /\ pticks < MaxPclaTicks
    /\ inflight' = inflight \cup {[cam |-> c, tick |-> step] : c \in Cameras}
    /\ pticks' = pticks + 1
    /\ ppc' = "wait_frame"
    /\ UNCHANGED <<max_steps, step, save_step, frame_ready, chase_ready, source_ready,
                   source_buffer, cb, saved, exit_reason, reported>>
    /\ UNCHANGED notPcla

\* world.tick() raises (simulator time-out): not caught, the finally block runs
WorldTickRaises ==
    /\ ppc = "tick"
    /\ ppc' = "finally" /\ exit_reason' = "error"
    /\ UNCHANGED <<max_steps, step, save_step, frame_ready, chase_ready, source_ready,
                   source_buffer, inflight, cb, saved, pticks, reported>>
    /\ UNCHANGED notPcla

\* frame_ready.wait(timeout=...) returns because the event is set
WaitFrameReturns ==
    /\ ppc = "wait_frame" /\ frame_ready
    /\ ppc' = "wait_chase"
    /\ UNCHANGED <<max_steps, step, save_step, frame_ready, chase_ready, source_ready,
                   source_buffer, inflight, cb, saved, pticks, exit_reason, reported>>
    /\ UNCHANGED notPcla

\* frame_ready.wait(timeout=...) times out; the result is not looked at
WaitFrameTimesOut ==
    /\ ppc = "wait_frame" /\ ~frame_ready
    /\ ppc' = "wait_chase"
    /\ UNCHANGED <<max_steps, step, save_step, frame_ready, chase_ready, source_ready,
                   source_buffer, inflight, cb, saved, pticks, exit_reason, reported>>
    /\ UNCHANGED notPcla

\* chase_ready.wait(timeout=...)
WaitChaseReturns ==
    /\ ppc = "wait_chase" /\ chase_ready
    /\ ppc' = "wait_source"
    /\ UNCHANGED <<max_steps, step, save_step, frame_ready, chase_ready, source_ready,
                   source_buffer, inflight, cb, saved, pticks, exit_reason, reported>>
    /\ UNCHANGED notPcla

WaitChaseTimesOut ==
    /\ ppc = "wait_chase" /\ ~chase_ready
    /\ ppc' = "wait_source"
    /\ UNCHANGED <<max_steps, step, save_step, frame_ready, chase_ready, source_ready,
                   source_buffer, inflight, cb, saved, pticks, exit_reason, reported>>
    /\ UNCHANGED notPcla

\* with source_lock: parts = [...]; if parts: save under save_step[0]; step += 1
SaveSourceAndAdvance ==
    /\ saved' = IF source_buffer # None
                THEN [saved EXCEPT !["source"] =
                          Some([tick |-> Val(source_buffer), idx |-> save_step])]
                ELSE saved
    /\ step' = step + 1
    /\ ppc' = "loop_head"
    /\ UNCHANGED <<max_steps, save_step, frame_ready, chase_ready, source_ready,
                   source_buffer, inflight, cb, pticks, exit_reason, reported>>
    /\ UNCHANGED notPcla

\* source_ready.wait(timeout=...) returns because the event is set
WaitSourceReturns ==
    /\ ppc = "wait_source" /\ source_ready
    /\ SaveSourceAndAdvance

WaitSourceTimesOut ==
    /\ ppc = "wait_source" /\ ~source_ready
    /\ SaveSourceAndAdvance

\* Ctrl+C anywhere in the loop
KeyboardInterrupt ==
    /\ ppc \in {"loop_head", "prepare", "tick", "wait_frame", "wait_chase", "wait_source"}
    /\ ppc' = "finally" /\ exit_reason' = "interrupt"
    /\ UNCHANGED <<max_steps, step, save_step, frame_ready, chase_ready, source_ready,
                   source_buffer, inflight, cb, saved, pticks, reported>>
    /\ UNCHANGED notPcla

ReportedFrames_Ticks == pticks + 1
\* _log("Captured %d frames to %s/" % (step, out_dir))
ReportedFrames == step

\* finally: destroy the cameras (their callbacks stop), report the frame count
Finally ==
    /\ ppc = "finally"
    /\ inflight' = {}
    /\ reported' = ReportedFrames
    /\ ppc' = "exited"
    /\ UNCHANGED <<max_steps, step, save_step, frame_ready, chase_ready, source_ready,
                   source_buffer, cb, saved, pticks, exit_reason>>
    /\ UNCHANGED notPcla

\* the oldest image of camera c not yet handed to its callback
Oldest(c) ==
    CHOOSE im \in inflight :
        im.cam = c /\ \A o \in inflight : o.cam = c => im.tick <= o.tick

Delivering == ppc # "exited"

\* on_image / on_chase_image, first line: i = save_step[0]
CallbackStart(c) ==
    /\ Delivering
    /\ cb[c] = None
    /\ \E im \in inflight : im.cam = c
    /\ cb' = [cb EXCEPT ![c] = Some([tick |-> Oldest(c).tick, i |-> save_step])]
    /\ inflight' = inflight \ {Oldest(c)}
    /\ UNCHANGED <<ppc, max_steps, step, save_step, frame_ready, chase_ready, source_ready,
                   source_buffer, saved, pticks, exit_reason, reported>>
    /\ UNCHANGED notPcla

\* on_image / on_chase_image, the rest: save frame_<i>.png, set the event
CallbackFinish(c) ==
    /\ Delivering
    /\ cb[c] # None
    /\ saved' = [saved EXCEPT ![c] = Some([tick |-> Val(cb[c]).tick, idx |-> Val(cb[c]).i])]
    /\ cb' = [cb EXCEPT ![c] = None]
    /\ IF c = "observer"
       THEN frame_ready' = TRUE /\ UNCHANGED chase_ready
       ELSE chase_ready' = TRUE /\ UNCHANGED frame_ready
    /\ UNCHANGED <<ppc, max_steps, step, save_step, source_ready, source_buffer, inflight,
                   pticks, exit_reason, reported>>
    /\ UNCHANGED notPcla

on_image_start == CallbackStart("observer")
on_image_finish == CallbackFinish("observer")
on_chase_image_start == CallbackStart("chase")
on_chase_image_finish == CallbackFinish("chase")

\* _cb of the source camera: with source_lock: source_buffer[sid] = rgb; set when complete
source_cb ==
    /\ Delivering
    /\ \E im \in inflight : im.cam = "source"
    /\ source_buffer' = Some(Oldest("source").tick)
    /\ source_ready' = TRUE
    /\ inflight' = inflight \ {Oldest("source")}
    /\ UNCHANGED <<ppc, max_steps, step, save_step, frame_ready, chase_ready, cb, saved,
                   pticks, exit_reason, reported>>
    /\ UNCHANGED notPcla

(***************************************************************************)
(* closed_loop_drive.py: main from the spawned vehicle on (lines 269-438)  *)
(***************************************************************************)
WARMUP_TICKS == 10
MAX_FRAMES == 6000

\* _get_behavior_agent / _get_basic_agent: (agent, True) when one of the three import
\* attempts succeeds, (None, False) when all raise ImportError
GetAgent(importable, kind) ==
    IF importable THEN [agent |-> kind, use_agent |-> TRUE]
    ELSE [agent |-> "none", use_agent |-> FALSE]

DriverChoice_BasicFirst(behavior_ok, basic_ok) ==
    LET first == GetAgent(basic_ok, "basic")
        second == IF first.use_agent THEN first ELSE GetAgent(behavior_ok, "behavior")
    IN [agent |-> second.agent, use_agent |-> second.use_agent,
        basic_tried |-> TRUE, autopilot |-> ~second.use_agent]

\* lines 269-304: BehaviorAgent, else BasicAgent, else vehicle.set_autopilot(True)
DriverChoice(behavior_ok, basic_ok) ==
    LET first == GetAgent(behavior_ok, "behavior")
        second == IF ~first.use_agent THEN GetAgent(basic_ok, "basic") ELSE first
    IN [agent |-> second.agent, use_agent |-> second.use_agent,
        basic_tried |-> ~first.use_agent, autopilot |-> ~second.use_agent]

\* the simulator after world.apply_settings(sync), set_weather(default), the spawns
WorldRunning ==
    [camera |-> "alive", vehicle |-> "alive", settings |-> "synchronous", weather |-> "default"]

CleanupSteps == <<"camera.destroy", "vehicle.destroy", "apply_settings", "set_weather">>
CleanupSet == {CleanupSteps[k] : k \in 1..Len(CleanupSteps)}

CleanupAttempted_OneTry(failed) ==
    {CleanupSteps[k] : k \in {n \in 1..Len(CleanupSteps) :
                                  \A m \in 1..(n - 1) : CleanupSteps[m] \notin failed}}

\* finally: four try/except Exception blocks in a row: a step that raises is swallowed
CleanupAttempted(failed) == CleanupSet

\* what the steps that ran without raising did to the simulator
CleanupEffect(w, ran) ==
    [camera |-> IF "camera.destroy" \in ran THEN "destroyed" ELSE w.camera,
     vehicle |-> IF "vehicle.destroy" \in ran THEN "destroyed" ELSE w.vehicle,
     settings |-> IF "apply_settings" \in ran THEN "original" ELSE w.settings,
     weather |-> IF "set_weather" \in ran THEN "default" ELSE w.weather]

DriveInit ==
    /\ dpc = "select_driver"
    /\ behavior_importable \in BOOLEAN
    /\ basic_importable \in BOOLEAN
    /\ basic_tried = FALSE
    /\ agent_kind = "none" /\ use_agent = FALSE /\ autopilot = FALSE
    /\ warm = 0 /\ frame_index = 0 /\ dticks = 0
    /\ control_applied = FALSE /\ done_early = FALSE
    /\ exit_kind = "running"
    /\ world_state = WorldRunning
    /\ attempted = {} /\ cleanup_raised = {}

SelectDriver ==
    /\ dpc = "select_driver"
    /\ LET c == DriverChoice(behavior_importable, basic_importable)
       IN /\ agent_kind' = c.agent /\ use_agent' = c.use_agent
          /\ basic_tried' = c.basic_tried /\ autopilot' = c.autopilot
    /\ dpc' = "warmup"
    /\ UNCHANGED <<behavior_importable, basic_importable, warm, frame_index, dticks,
                   control_applied, done_early, exit_kind, world_state, attempted,
                   cleanup_raised>>
    /\ UNCHANGED notDrive

\* whether the loop body steps the agent before the tick: if use_agent: ...
StepsAgent == use_agent

\* warm-up iteration, up to the tick: if use_agent: c = agent.run_step(); apply_control(c)
WarmupStep ==
    /\ dpc = "warmup"
    /\ IF warm < WARMUP_TICKS
       THEN /\ dpc' = "warmup_tick"
            /\ control_applied' = StepsAgent
            /\ UNCHANGED frame_index
       ELSE \* capturing[0] = True; i = 0; done_early = False
            /\ dpc' = "capture"
            /\ frame_index' = 0
            /\ UNCHANGED control_applied
    /\ UNCHANGED <<behavior_importable, basic_importable, basic_tried, agent_kind, use_agent,
                   autopilot, warm, dticks, done_early, exit_kind, world_state, attempted, cleanup_raised>>
    /\ UNCHANGED notDrive

\* world.tick() and frame_ready.wait() of a warm-up iteration
WarmupTick ==
    /\ dpc = "warmup_tick"
    /\ \E outcome \in {"frame", "sim_timeout", "runtime_error", "no_frame"} :
          IF outcome = "frame"
          THEN /\ warm' = warm + 1
               /\ control_applied' = FALSE
               /\ dpc' = "warmup"
               /\ UNCHANGED exit_kind
          ELSE \* SystemExit(1) from _handle_carla_timeout or the wait, or the RuntimeError
               /\ exit_kind' = outcome
               /\ dpc' = "finally"
               /\ UNCHANGED <<warm, control_applied>>
    /\ UNCHANGED <<behavior_importable, basic_importable, basic_tried, agent_kind, use_agent,
                   autopilot, frame_index, dticks, done_early, world_state, attempted, cleanup_raised>>
    /\ UNCHANGED notDrive

LoopBound_Off == MAX_FRAMES + 1
\* while i < MAX_FRAMES
LoopBound == MAX_FRAMES

\* capture iteration, up to the tick: run_step, apply_control, if agent.done(): break
CaptureStep ==
    /\ dpc = "capture"
    /\ IF frame_index < LoopBound
       THEN \E done \in BOOLEAN :
              /\ done => StepsAgent
              /\ control_applied' = StepsAgent
              /\ IF done
                 THEN /\ done_early' = TRUE
                      /\ exit_kind' = "agent_done"
                      /\ dpc' = "finally"
                 ELSE /\ dpc' = "capture_tick"
                      /\ UNCHANGED <<done_early, exit_kind>>
       ELSE /\ exit_kind' = "normal"
            /\ dpc' = "finally"
            /\ UNCHANGED <<control_applied, done_early>>
    /\ UNCHANGED <<behavior_importable, basic_importable, basic_tried, agent_kind, use_agent,
                   autopilot, warm, frame_index, dticks, world_state, attempted, cleanup_raised>>
    /\ UNCHANGED notDrive

\* world.tick(), frame_ready.wait(), i += 1 of a capture iteration
CaptureTick ==
    /\ dpc = "capture_tick"
    /\ \E outcome \in {"frame", "sim_timeout", "runtime_error", "frame_timeout"} :
          /\ dticks' = IF outcome \in {"frame", "frame_timeout"} THEN dticks + 1 ELSE dticks
          /\ IF outcome = "frame"
             THEN /\ frame_index' = frame_index + 1
                  /\ control_applied' = FALSE
                  /\ dpc' = "capture"
                  /\ UNCHANGED exit_kind
             ELSE /\ exit_kind' = outcome
                  /\ dpc' = "finally"
                  /\ UNCHANGED <<frame_index, control_applied>>
    /\ UNCHANGED <<behavior_importable, basic_importable, basic_tried, agent_kind, use_agent,
                   autopilot, warm, done_early, world_state, attempted, cleanup_raised>>
    /\ UNCHANGED notDrive

\* the finally block: each step in its own try/except Exception
DriveFinally ==
    /\ dpc = "finally"
    /\ \E failed \in SUBSET CleanupSet :
          /\ attempted' = CleanupAttempted(failed)
          /\ cleanup_raised' = CleanupAttempted(failed) \cap failed
          /\ world_state' = CleanupEffect(world_state, CleanupAttempted(failed) \ failed)
    /\ dpc' = "done"
    /\ UNCHANGED <<behavior_importable, basic_importable, basic_tried, agent_kind, use_agent,
                   autopilot, warm, frame_index, dticks, control_applied, done_early,
                   exit_kind>>
    /\ UNCHANGED notDrive

DriveNext ==
    \/ SelectDriver
    \/ WarmupStep
    \/ WarmupTick
    \/ CaptureStep
    \/ CaptureTick
    \/ DriveFinally

(***************************************************************************)
(* rig_capture_one.py, weather_capture.py, actor_capture.py: main.         *)
(* A carla.WorldSettings is [synchronous_mode, fixed_delta_seconds], the   *)
(* latter None (variable time step) or a number of hundredths of a second. *)
(* world.get_settings() returns a new object at each call; a Python        *)
(* assignment binds a second name to the same object.                      *)
(***************************************************************************)
FIXED_DELTA_SECONDS == 10       \* actor_capture.FIXED_DELTA_SECONDS = 0.1
DEFAULT_NUM_FRAMES == 50
WARMUP_RANGE == 10              \* for _ in range(10)

ACTOR_PRESETS ==
    [p \in {"walker", "vehicle"} |-> [num_frames |-> DEFAULT_NUM_FRAMES]]

\* the cameras of rig_capture_one in the order they are spawned: the rig, then the chase
RigCameras == <<"front", "rear", "left", "right", "roof", "chase">>

\* needed = set(list(rig_cams.keys()) + ["chase"])
needed == {RigCameras[k] : k \in 1..Len(RigCameras)}

MaxNumFramesArg == 1    \* largest -n/--num-frames given on the command line

WorldSettings == [synchronous_mode : BOOLEAN, fixed_delta_seconds : {None, Some(5), Some(10)}]

\* obj.synchronous_mode = True; obj.fixed_delta_seconds = delta, on the object `ref`
SetSynchronous(h, ref, delta) ==
    [h EXCEPT ![ref] = [synchronous_mode |-> TRUE, fixed_delta_seconds |-> Some(delta)]]

\* a new object on the heap
NewObject(h, value) == Append(h, value)

CapScripts == {"weather_capture", "actor_capture"}

CaptureInit ==
    /\ script \in {"rig_capture_one"} \cup CapScripts
    /\ cpc = "start"
    /\ \/ script = "rig_capture_one" /\ cpreset = "none" /\ num_frames = 0
       \/ /\ script = "weather_capture"
          /\ cpreset \in DOMAIN PRESETS
          /\ num_frames = PRESETS[cpreset].num_frames
       \/ /\ script = "actor_capture"
          /\ cpreset \in DOMAIN ACTOR_PRESETS
          /\ \E arg \in {None} \cup {Some(n) : n \in 0..MaxNumFramesArg} :
                num_frames = IF arg # None THEN Val(arg) ELSE ACTOR_PRESETS[cpreset].num_frames
    /\ server_settings \in WorldSettings
    /\ settings_before = server_settings
    /\ heap = << >> /\ settings = None /\ original_settings = None
    /\ actors = << >> /\ alive = {} /\ rig_saved = {}
    /\ cwarm = 0 /\ cframe = 0
    /\ capplied = None /\ cattempted = {} /\ craised = {} /\ cexit = "running"

\* ---- rig_capture_one.main
\* settings = world.get_settings(); original_settings = settings
RigGetSettings ==
    /\ script = "rig_capture_one" /\ cpc = "start"
    /\ heap' = NewObject(heap, server_settings)
    /\ settings' = Some(Len(heap'))
    /\ original_settings' = settings'
    /\ cpc' = "sync"
    /\ UNCHANGED <<script, cpreset, num_frames, settings_before, server_settings, actors,
                   alive, rig_saved, cwarm, cframe, capplied, cattempted, craised, cexit>>
    /\ UNCHANGED notCapture

RigEnableSync ==
    /\ script = "rig_capture_one" /\ cpc = "sync"
    /\ heap' = SetSynchronous(heap, Val(settings), 10)
    /\ server_settings' = heap'[Val(settings)]
    /\ cpc' = "spawn_vehicle"
    /\ UNCHANGED <<script, cpreset, num_frames, settings_before, settings,
                   original_settings, actors, alive, rig_saved, cwarm, cframe, capplied,
                   cattempted, craised, cexit>>
    /\ UNCHANGED notCapture

\* world.spawn_actor raises RuntimeError when the actor cannot be spawned
RigSpawnVehicle ==
    /\ script = "rig_capture_one" /\ cpc = "spawn_vehicle"
    /\ \/ /\ actors' = Append(actors, "vehicle")
          /\ alive' = alive \cup {"vehicle"}
          /\ cpc' = "spawn_cameras"
          /\ UNCHANGED cexit
       \/ /\ cpc' = "finally" /\ cexit' = "spawn_failed"
          /\ UNCHANGED <<actors, alive>>
    /\ UNCHANGED <<script, cpreset, num_frames, settings_before, server_settings, heap,
                   settings, original_settings, rig_saved, cwarm, cframe, capplied,
                   cattempted, craised>>
    /\ UNCHANGED notCapture

\* one world.spawn_actor(cam_bp, ...) of the rig loop, or the chase camera after it
RigSpawnCamera ==
    /\ script = "rig_capture_one" /\ cpc = "spawn_cameras"
    /\ LET name == RigCameras[Len(actors)]
       IN \/ /\ actors' = Append(actors, name)
             /\ alive' = alive \cup {name}
             /\ cpc' = IF Len(actors') = Len(RigCameras) + 1 THEN "tick" ELSE "spawn_cameras"
             /\ UNCHANGED cexit
          \/ /\ cpc' = "finally" /\ cexit' = "spawn_failed"
             /\ UNCHANGED <<actors, alive>>
    /\ UNCHANGED <<script, cpreset, num_frames, settings_before, server_settings, heap,
                   settings, original_settings, rig_saved, cwarm, cframe, capplied,
                   cattempted, craised>>
    /\ UNCHANGED notCapture

\* one iteration of `while needed - set(saved.keys())`: the tick, the callbacks that run
\* during it (each camera saves its first image only), and the 10 s test
RigTick ==
    /\ script = "rig_capture_one" /\ cpc = "tick"
    /\ needed \ rig_saved # {}
    /\ \E got \in SUBSET (needed \ rig_saved) : rig_saved' = rig_saved \cup got
    /\ \/ UNCHANGED <<cpc, cexit>>
       \/ cpc' = "finally" /\ cexit' = "timeout"
    /\ UNCHANGED <<script, cpreset, num_frames, settings_before, server_settings, heap,
                   settings, original_settings, actors, alive, cwarm, cframe, capplied,
                   cattempted, craised>>
    /\ UNCHANGED notCapture

\* the loop ends; sensors are stopped and meta.json is written
RigSaveMeta ==
    /\ script = "rig_capture_one" /\ cpc = "tick"
    /\ needed \ rig_saved = {}
    /\ cpc' = "finally" /\ cexit' = "success"
    /\ UNCHANGED <<script, cpreset, num_frames, settings_before, server_settings, heap,
                   settings, original_settings, actors, alive, rig_saved, cwarm, cframe,
                   capplied, cattempted, craised>>
    /\ UNCHANGED notCapture

ActorsOf(list) == {list[k] : k \in 1..Len(list)}

\* finally: world.apply_settings(original_settings), then a.destroy() for every actor of
\* the list, each in its own try/except Exception; `failing` are the calls that raise
RigFinally ==
    /\ script = "rig_capture_one" /\ cpc = "finally"
    /\ \E failing \in SUBSET ({"apply_settings"} \cup ActorsOf(actors)) :
          /\ cattempted' = {"apply_settings"} \cup ActorsOf(actors)
          /\ craised' = failing
          /\ capplied' = Some(heap[Val(original_settings)])
          /\ server_settings' = IF "apply_settings" \in failing THEN server_settings
                                ELSE heap[Val(original_settings)]
          /\ alive' = alive \ (ActorsOf(actors) \ failing)
    /\ cpc' = "exited"
    /\ UNCHANGED <<script, cpreset, num_frames, settings_before, heap, settings,
                   original_settings, actors, rig_saved, cwarm, cframe, cexit>>
    /\ UNCHANGED notCapture

\* ---- weather_capture.main and actor_capture.main: the parts the two scripts share
\* original_settings = world.get_settings(); settings = world.get_settings()
CapGetSettings ==
    /\ script \in CapScripts /\ cpc = "start"
    /\ LET h1 == NewObject(heap, server_settings)
           h2 == NewObject(h1, server_settings)
       IN /\ heap' = h2
          /\ original_settings' = Some(Len(h1))
          /\ settings' = Some(Len(h2))
    /\ cpc' = "sync"
    /\ UNCHANGED <<script, cpreset, num_frames, settings_before, server_settings, actors,
                   alive, rig_saved, cwarm, cframe, capplied, cattempted, craised, cexit>>
    /\ UNCHANGED notCapture

CapEnableSync ==
    /\ script \in CapScripts /\ cpc = "sync"
    /\ heap' = SetSynchronous(heap, Val(settings),
                              IF script = "actor_capture" THEN FIXED_DELTA_SECONDS ELSE 10)
    /\ server_settings' = heap'[Val(settings)]
    /\ cpc' = "spawn_vehicle"
    /\ UNCHANGED <<script, cpreset, num_frames, settings_before, settings,
                   original_settings, actors, alive, rig_saved, cwarm, cframe, capplied,
                   cattempted, craised, cexit>>
    /\ UNCHANGED notCapture

\* vehicle = world.spawn_actor(vehicle_bp, spawn): outside any try, an exception ends main
CapSpawnVehicle ==
    /\ script \in CapScripts /\ cpc = "spawn_vehicle"
    /\ \/ /\ alive' = alive \cup {"vehicle"}
          /\ cpc' = "spawn_camera"
          /\ UNCHANGED cexit
       \/ /\ cpc' = "exited" /\ cexit' = "spawn_failed"
          /\ UNCHANGED alive
    /\ UNCHANGED <<script, cpreset, num_frames, settings_before, server_settings, heap,
                   settings, original_settings, actors, rig_saved, cwarm, cframe, capplied,
                   cattempted, craised>>
    /\ UNCHANGED notCapture

\* camera = world.spawn_actor(cam_bp, camera_tf, attach_to=vehicle); camera.listen(on_image)
CapSpawnCamera ==
    /\ script \in CapScripts /\ cpc = "spawn_camera"
    /\ \/ /\ alive' = alive \cup {"camera"}
          /\ cpc' = "warmup"
          /\ UNCHANGED cexit
       \/ /\ cpc' = "exited" /\ cexit' = "spawn_failed"
          /\ UNCHANGED alive
    /\ UNCHANGED <<script, cpreset, num_frames, settings_before, server_settings, heap,
                   settings, original_settings, actors, rig_saved, cwarm, cframe, capplied,
                   cattempted, craised>>
    /\ UNCHANGED notCapture

\* one iteration of the warm-up loop: the wait returns True, or times out and main raises
CapWarmupTick ==
    /\ script \in CapScripts /\ cpc = "warmup"
    /\ cwarm < WARMUP_RANGE
    /\ \/ cwarm' = cwarm + 1 /\ UNCHANGED <<cpc, cexit>>
       \/ cpc' = "exited" /\ cexit' = "warmup_timeout" /\ UNCHANGED cwarm
    /\ UNCHANGED <<script, cpreset, num_frames, settings_before, server_settings, heap,
                   settings, original_settings, actors, alive, rig_saved, cframe, capplied,
                   cattempted, craised>>
    /\ UNCHANGED notCapture

\* the warm-up loop ends and main enters its try block
CapEnterTry ==
    /\ script \in CapScripts /\ cpc = "warmup"
    /\ cwarm = WARMUP_RANGE
    /\ cpc' = IF script = "actor_capture" THEN "setup" ELSE "capture"
    /\ UNCHANGED <<script, cpreset, num_frames, settings_before, server_settings, heap,
                   settings, original_settings, actors, alive, rig_saved, cwarm, cframe,
                   capplied, cattempted, craised, cexit>>
    /\ UNCHANGED notCapture

\* actor_capture, preset walker: try_spawn_actor returns the walker or None
ActorSpawnWalker ==
    /\ script = "actor_capture" /\ cpc = "setup" /\ cpreset = "walker"
    /\ \/ /\ alive' = alive \cup {"walker_actor"}
          /\ cpc' = "controller"
          /\ UNCHANGED cexit
       \/ /\ cpc' = "finally" /\ cexit' = "setup_failed"
          /\ UNCHANGED alive
    /\ UNCHANGED <<script, cpreset, num_frames, settings_before, server_settings, heap,
                   settings, original_settings, actors, rig_saved, cwarm, cframe, capplied,
                   cattempted, craised>>
    /\ UNCHANGED notCapture

\* the walker's controller is spawned and the walker settles (timeouts are ignored here)
ActorSpawnController ==
    /\ script = "actor_capture" /\ cpc = "controller"
    /\ \/ /\ alive' = alive \cup {"walker_controller"}
          /\ cpc' = "capture"
          /\ UNCHANGED cexit
       \/ /\ cpc' = "finally" /\ cexit' = "setup_failed"
          /\ UNCHANGED alive
    /\ UNCHANGED <<script, cpreset, num_frames, settings_before, server_settings, heap,
                   settings, original_settings, actors, rig_saved, cwarm, cframe, capplied,
                   cattempted, craised>>
    /\ UNCHANGED notCapture

\* actor_capture, preset vehicle: find_oncoming_spawn_point or spawn_actor may raise
ActorSpawnOncoming ==
    /\ script = "actor_capture" /\ cpc = "setup" /\ cpreset = "vehicle"
    /\ \/ /\ alive' = alive \cup {"oncoming_vehicle"}
          /\ cpc' = "capture"
          /\ UNCHANGED cexit
       \/ /\ cpc' = "finally" /\ cexit' = "setup_failed"
          /\ UNCHANGED alive
    /\ UNCHANGED <<script, cpreset, num_frames, settings_before, server_settings, heap,
                   settings, original_settings, actors, rig_saved, cwarm, cframe, capplied,
                   cattempted, craised>>
    /\ UNCHANGED notCapture

\* one iteration of `for i in range(num_frames)`: the frame arrives, or the wait times out
CapFrame ==
    /\ script \in CapScripts /\ cpc = "capture"
    /\ cframe < num_frames
    /\ \/ cframe' = cframe + 1 /\ UNCHANGED <<cpc, cexit>>
       \/ cpc' = "finally" /\ cexit' = "frame_timeout" /\ UNCHANGED cframe
    /\ UNCHANGED <<script, cpreset, num_frames, settings_before, server_settings, heap,
                   settings, original_settings, actors, alive, rig_saved, cwarm, capplied,
                   cattempted, craised>>
    /\ UNCHANGED notCapture

CapLoopDone ==
    /\ script \in CapScripts /\ cpc = "capture"
    /\ cframe = num_frames
    /\ cpc' = "finally" /\ cexit' = "success"
    /\ UNCHANGED <<script, cpreset, num_frames, settings_before, server_settings, heap,
                   settings, original_settings, actors, alive, rig_saved, cwarm, cframe,
                   capplied, cattempted, craised>>
    /\ UNCHANGED notCapture

\* the effect of a finally block whose steps each sit in their own try/except Exception:
\* `destroys` are the actors it destroys, `failing` the steps that raise
CapCleanup(destroys, failing) ==
    /\ cattempted' = destroys \cup {"apply_settings"}
    /\ craised' = failing
    /\ capplied' = Some(heap[Val(original_settings)])
    /\ server_settings' = IF "apply_settings" \in failing THEN server_settings
                          ELSE heap[Val(original_settings)]
    /\ alive' = alive \ (destroys \ failing)

\* weather_capture: camera.destroy(), vehicle.destroy(), apply_settings(original_settings)
WeatherFinally ==
    /\ script = "weather_capture" /\ cpc = "finally"
    /\ \E failing \in SUBSET {"camera", "vehicle", "apply_settings"} :
          CapCleanup({"camera", "vehicle"}, failing)
    /\ cpc' = "exited"
    /\ UNCHANGED <<script, cpreset, num_frames, settings_before, heap, settings,
                   original_settings, actors, rig_saved, cwarm, cframe, cexit>>
    /\ UNCHANGED notCapture

\* actor_capture: the controller, walker and oncoming vehicle that are not None, then the
\* camera, the vehicle and the settings (the weather reset that follows is not modelled)
ActorFinally ==
    /\ script = "actor_capture" /\ cpc = "finally"
    /\ LET destroys == (alive \cap {"walker_controller", "walker_actor", "oncoming_vehicle"})
                           \cup {"camera", "vehicle"}
       IN \E failing \in SUBSET (destroys \cup {"apply_settings"}) :
             CapCleanup(destroys, failing)
    /\ cpc' = "exited"
    /\ UNCHANGED <<script, cpreset, num_frames, settings_before, heap, settings,
                   original_settings, actors, rig_saved, cwarm, cframe, cexit>>
    /\ UNCHANGED notCapture

CaptureNext ==
    \/ RigGetSettings
    \/ RigEnableSync
    \/ RigSpawnVehicle
    \/ RigSpawnCamera
    \/ RigTick
    \/ RigSaveMeta
    \/ RigFinally
    \/ CapGetSettings
    \/ CapEnableSync
    \/ CapSpawnVehicle
    \/ CapSpawnCamera
    \/ CapWarmupTick
    \/ CapEnterTry
    \/ ActorSpawnWalker
    \/ ActorSpawnController
    \/ ActorSpawnOncoming
    \/ CapFrame
    \/ CapLoopDone
    \/ WeatherFinally
    \/ ActorFinally

(***************************************************************************)
(* Specification of the pure functions: Init draws one call and its        *)
(* inputs, the call's action applies the function.                         *)
(***************************************************************************)
MaxMaps == 2        \* longest list of available maps
MaxSpawns == 12     \* most spawn points on a map; end_spawn_index ranges past it
MaxWaypoints == 6   \* longest route
MaxLaneCoord == 6   \* largest x of a lane segment's end points, in metres

LaneLocations == [x : 0..MaxLaneCoord, y : {-1, 1}]

MaxMapCoord == 2    \* map coordinates are 0, 2, ..., 2 * MaxMapCoord metres
MaxTopology == 1    \* most lane segments in a topology

MapPaths ==
    { MapsDir \o Town10HD, MapsDir \o Town01, Town02, MapsDir \o Town05, Town03, MapsDir }

RECURSIVE ListsUpTo(_, _)
ListsUpTo(S, n) ==
    IF n = 0 THEN {<<>>}
    ELSE LET shorter == ListsUpTo(S, n - 1)
         IN shorter \cup {<<x>> \o l : x \in S, l \in {m \in shorter : Len(m) = n - 1}}

MapLists == ListsUpTo(MapPaths, MaxMaps)

MapLocations == [x : {2 * k : k \in 0..MaxMapCoord}, y : {2 * k : k \in 0..MaxMapCoord}]
Topologies == ListsUpTo(MapLocations \X MapLocations, MaxTopology)

PreferredArgs ==
    { None, Some(<<>>), Some(<<Town05, Town01>>), Some(<<Town03>>),
      Some(<<MapsDir \o Town01, Town02>>) }

\* carla_map.get_spawn_points(): n distinct spawn locations
SpawnList(n) == [k \in 1..n |-> 100 + k]

EndSpawnIndexArgs == {None} \cup {Some(e) : e \in (0 - MaxSpawns - 1)..(MaxSpawns + 1)}

PureCalls ==
    [op : {"select_map_name"}, maps : MapLists, preferred : PreferredArgs]
    \cup [op : {"closed_loop_drive"}, maps : MapLists]
    \cup [op : {"connect_and_load_map"}, maps : MapLists]
    \cup [op : {"get_start_end_waypoints"}, spawns : {SpawnList(n) : n \in 0..MaxSpawns},
          end_spawn_index : EndSpawnIndexArgs]
    \cup [op : {"choose_start_end"}, spawns : {SpawnList(n) : n \in 0..MaxSpawns}]
    \cup [op : {"drive_start_end"}, spawns : {SpawnList(n) : n \in 0..MaxSpawns}]
    \cup [op : {"weather_sweep"}, preset : DOMAIN PRESETS]
    \cup [op : {"capture_aerial"}, topology : Topologies]
    \cup [op : {"_walk_lane"}, wp_start : LaneLocations, wp_end : LaneLocations,
          step : {DENSE_STEP}]
    \cup UNION { [op : {"crossing"}, num_waypoints : {n},
                  walker_waypoint_index : {None} \cup {Some(k) : k \in 0..(n - 1)}]
                : n \in 2..MaxWaypoints }

PureIdle == fcall = [op |-> "none"] /\ fret = Pending
WalkerIdle == trigger_step = None /\ walkers = << >>
PclaIdle ==
    /\ ppc = "idle" /\ max_steps = 0 /\ save_step = 0
    /\ frame_ready = FALSE /\ chase_ready = FALSE /\ source_ready = FALSE
    /\ source_buffer = None /\ inflight = {} /\ cb = << >> /\ saved = << >>
    /\ pticks = 0 /\ exit_reason = "idle" /\ reported = -1

DriveIdle ==
    /\ dpc = "idle" /\ behavior_importable = FALSE /\ basic_importable = FALSE
    /\ basic_tried = FALSE /\ agent_kind = "none" /\ use_agent = FALSE /\ autopilot = FALSE
    /\ warm = 0 /\ frame_index = 0 /\ dticks = 0
    /\ control_applied = FALSE /\ done_early = FALSE
    /\ exit_kind = "idle" /\ world_state = << >> /\ attempted = {} /\ cleanup_raised = {}

CaptureIdle ==
    /\ script = "none" /\ cpc = "idle" /\ cpreset = "none" /\ num_frames = 0
    /\ settings_before = None /\ server_settings = None
    /\ heap = << >> /\ settings = None /\ original_settings = None
    /\ actors = << >> /\ alive = {} /\ rig_saved = {} /\ cwarm = 0 /\ cframe = 0
    /\ capplied = None /\ cattempted = {} /\ craised = {} /\ cexit = "idle"

PureInit ==
    /\ fcall \in PureCalls /\ fret = Pending
    /\ WalkerIdle /\ PclaIdle /\ step = 0 /\ DriveIdle /\ CaptureIdle

SelectMapName ==
    /\ fcall.op = "select_map_name" /\ fret = Pending
    /\ fret' = [kind |-> "return", val |-> select_map_name(fcall.maps, fcall.preferred)]
    /\ UNCHANGED <<fcall, notPure>>

DriveLoadWorld ==
    /\ fcall.op = "closed_loop_drive" /\ fret = Pending
    /\ fret' = [kind |-> "return", val |-> closed_loop_drive_map_name(fcall.maps)]
    /\ UNCHANGED <<fcall, notPure>>

PlotLoadWorld ==
    /\ fcall.op = "connect_and_load_map" /\ fret = Pending
    /\ fret' = [kind |-> "return", val |-> connect_and_load_map(fcall.maps)]
    /\ UNCHANGED <<fcall, notPure>>

GetStartEndWaypoints ==
    /\ fcall.op = "get_start_end_waypoints" /\ fret = Pending
    /\ fret' = get_start_end_waypoints(fcall.spawns, fcall.end_spawn_index)
    /\ UNCHANGED <<fcall, notPure>>

PlaceCrossing ==
    /\ fcall.op = "crossing" /\ fret = Pending
    /\ fret' = [kind |-> "return", val |-> crossing_waypoint_index(fcall.walker_waypoint_index)]
    /\ UNCHANGED <<fcall, notPure>>

ChooseStartEnd ==
    /\ fcall.op = "choose_start_end" /\ fret = Pending
    /\ fret' = choose_start_end(fcall.spawns)
    /\ UNCHANGED <<fcall, notPure>>

DriveStartEnd ==
    /\ fcall.op = "drive_start_end" /\ fret = Pending
    /\ fret' = closed_loop_drive_start_end(fcall.spawns)
    /\ UNCHANGED <<fcall, notPure>>

\* weather_capture.main, one iteration of `for i in range(num_frames)` up to
\* world.set_weather: fret holds i, the value set on the weather for frame i and the
\* value set for the frame before (None at frame 0)
WeatherFrame ==
    /\ fcall.op = "weather_sweep"
    /\ LET preset == PRESETS[fcall.preset]
           i == IF fret = Pending THEN 0 ELSE fret.i + 1
       IN /\ i < preset.num_frames
          /\ fret' = [kind |-> "frame", i |-> i, param |-> preset.param,
                      value |-> get_value_for_frame(preset, i),
                      prev |-> IF fret = Pending THEN None ELSE Some(fret.value)]
    /\ UNCHANGED <<fcall, notPure>>

\* _walk_lane, one iteration of `for _ in range(max_steps)`
WalkLaneStep ==
    /\ fcall.op = "_walk_lane"
    /\ fret.kind \in {"pending", "loop"}
    /\ LET w == IF fret = Pending THEN WalkStart(fcall.wp_start) ELSE fret
       IN /\ ~w.broke
          /\ w.n < walk_max_steps(fcall.wp_start, fcall.wp_end, fcall.step)
          /\ \E nexts \in WaypointNext(w.wp, fcall.step) :
                fret' = [kind |-> "loop",
                         pts |-> Append(w.pts, PlotPoint(w.wp)),
                         wp |-> IF nexts = <<>> THEN w.wp ELSE nexts[1],
                         n |-> w.n + 1,
                         broke |-> (nexts = <<>>)]
    /\ UNCHANGED <<fcall, notPure>>

\* _walk_lane after the loop: pts.append((target.x, -target.y)); return pts
WalkLaneReturn ==
    /\ fcall.op = "_walk_lane"
    /\ fret.kind \in {"pending", "loop"}
    /\ LET w == IF fret = Pending THEN WalkStart(fcall.wp_start) ELSE fret
       IN /\ w.broke \/ w.n >= walk_max_steps(fcall.wp_start, fcall.wp_end, fcall.step)
          /\ fret' = [kind |-> "return", val |-> Append(w.pts, PlotPoint(fcall.wp_end)),
                      n |-> w.n]
    /\ UNCHANGED <<fcall, notPure>>

\* 2Dplot_route.main: the bounds of the map, then capture_aerial on them, which returns
\* (rgb, extent), or (None, None) when no image arrives or the simulator raises
CaptureAerial ==
    /\ fcall.op = "capture_aerial" /\ fret = Pending
    /\ LET b == get_map_bounds(fcall.topology)
       IN IF b.kind = "raise" THEN fret' = b
          ELSE \E arrived \in BOOLEAN :
                  fret' = [kind |-> "return", bounds |-> b,
                           extent |-> IF arrived
                                      THEN Some(aerial_extent(b.x_min, b.x_max, b.y_min, b.y_max))
                                      ELSE None]
    /\ UNCHANGED <<fcall, notPure>>

PureNext ==
    \/ SelectMapName
    \/ DriveLoadWorld
    \/ PlotLoadWorld
    \/ GetStartEndWaypoints
    \/ PlaceCrossing
    \/ ChooseStartEnd
    \/ DriveStartEnd
    \/ WeatherFrame
    \/ WalkLaneStep
    \/ WalkLaneReturn
    \/ CaptureAerial

SpecPure == PureInit /\ [][PureNext]_vars

\* a function that was called keeps running until it returns or raises
SpecPureFair == SpecPure /\ WF_vars(PureNext)

WalkerSpecInit == WalkerInit /\ PureIdle /\ PclaIdle /\ DriveIdle /\ CaptureIdle

SpecWalker ==
    /\ WalkerSpecInit
    /\ [][WalkerNext]_vars

\* the main thread's own steps (everything but Ctrl+C and a failing tick)
PclaMainStep ==
    \/ LoopHead
    \/ SetSaveStep
    \/ WorldTick
    \/ WaitFrameReturns
    \/ WaitFrameTimesOut
    \/ WaitChaseReturns
    \/ WaitChaseTimesOut
    \/ WaitSourceReturns
    \/ WaitSourceTimesOut
    \/ Finally

PclaNext ==
    \/ PclaMainStep
    \/ WorldTickRaises
    \/ KeyboardInterrupt
    \/ on_image_start
    \/ on_image_finish
    \/ on_chase_image_start
    \/ on_chase_image_finish
    \/ source_cb

\* the main thread keeps running: every wait has a timeout
PclaSpecInit == PclaInit /\ PureIdle /\ WalkerIdle /\ DriveIdle /\ CaptureIdle

SpecPcla ==
    /\ PclaSpecInit
    /\ [][PclaNext]_vars
    /\ WF_vars(PclaMainStep)

\* main runs on: every tick and every wait returns or times out
DriveSpecInit ==
    DriveInit /\ PureIdle /\ WalkerIdle /\ PclaIdle /\ step = 0 /\ CaptureIdle

CaptureSpecInit ==
    CaptureInit /\ PureIdle /\ WalkerIdle /\ PclaIdle /\ step = 0 /\ DriveIdle

\* main runs on: every call into the simulator returns or raises
SpecCapture ==
    /\ CaptureSpecInit
    /\ [][CaptureNext]_vars
    /\ WF_vars(CaptureNext)

SpecDrive ==
    /\ DriveSpecInit
    /\ [][DriveNext]_vars
    /\ WF_vars(DriveNext)

Returned(op) == fcall.op = op /\ fret # Pending

(***************************************************************************)
(* C2: when --walker-waypoint-index is not given, the crossing is placed   *)
(* at route waypoint index len(waypoints)//3.                              *)
(***************************************************************************)
C2_DefaultCrossingIsThird ==
    (Returned("crossing") /\ fcall.walker_waypoint_index = None)
        => fret.val = fcall.num_waypoints \div 3

(***************************************************************************)
(* C8: select_map_name returns the first name of the preferred list that   *)
(* is the short name of an available map, else the short name of the first *)
(* available map, else Town01 -- for every preferred list.                 *)
(***************************************************************************)
AfterLastSlash(s) ==
    IF \E i \in 1..Len(s) : s[i] = "/" /\ \A j \in (i + 1)..Len(s) : s[j] # "/"
    THEN LET i == CHOOSE k \in 1..Len(s) : s[k] = "/" /\ \A j \in (k + 1)..Len(s) : s[j] # "/"
         IN [j \in 1..(Len(s) - i) |-> s[i + j]]
    ELSE s

FirstPreferredElseFirstAvailable(maps, plist) ==
    LET shorts == {AfterLastSlash(maps[i]) : i \in 1..Len(maps)}
        hits == {i \in 1..Len(plist) : plist[i] \in shorts}
    IN IF hits # {} THEN plist[CHOOSE i \in hits : \A j \in hits : i <= j]
       ELSE IF maps # <<>> THEN AfterLastSlash(maps[1])
       ELSE Town01

C8_SelectForEveryPreferredList ==
    Returned("select_map_name") =>
        fret.val = FirstPreferredElseFirstAvailable(
                       fcall.maps,
                       IF fcall.preferred = None THEN PREFERRED_MAPS ELSE Val(fcall.preferred))

(***************************************************************************)
(* C9: for every list of available maps, closed_loop_drive's inline        *)
(* selection and 2Dplot_route.connect_and_load_map choose the map that     *)
(* route_plan.select_map_name chooses with the default preferred list.     *)
(***************************************************************************)
C9_SameMapInAllScripts ==
    (Returned("closed_loop_drive") \/ Returned("connect_and_load_map"))
        => fret.val = select_map_name(fcall.maps, None)

\* a bare name (no "/") after a non-preferred path is chosen by the inline selection
C9_Witness ==
    /\ Returned("connect_and_load_map")
    /\ fcall.maps = <<MapsDir \o Town05, Town02>>
    /\ fret.val = Town02

(***************************************************************************)
(* C10: get_start_end_waypoints raises RuntimeError('No spawn points on    *)
(* this map.') exactly when the map has no spawn points; otherwise its     *)
(* start is spawn 0, its end is spawn min(end_spawn_index, len(spawns)-1), *)
(* the end index it returns is that index and is a valid index of the      *)
(* spawn list (in 0..len-1 for a non-negative end_spawn_index).            *)
(***************************************************************************)
C10_StartEndWaypoints ==
    Returned("get_start_end_waypoints") =>
        LET sp == fcall.spawns
            n == Len(sp)
            e == IF fcall.end_spawn_index = None THEN 10 ELSE Val(fcall.end_spawn_index)
            m == IF e <= n - 1 THEN e ELSE n - 1
        IN /\ (n = 0) <=> (fret.kind = "raise" /\ fret.exc = "RuntimeError")
           /\ (n = 0) => fret.msg = "No spawn points on this map."
           /\ (n > 0 /\ e >= 0) =>
                 /\ fret.kind = "return"
                 /\ fret.end_idx = m /\ m \in 0..(n - 1)
                 /\ fret.start_wp = GetWaypoint(sp[1])
                 /\ fret.end_wp = GetWaypoint(sp[m + 1])
           /\ fret.kind = "return" =>
                 /\ fret.end_idx = m
                 /\ -n <= fret.end_idx /\ fret.end_idx < n
                 /\ fret.start_wp = GetWaypoint(sp[1])

\* fewer than END_SPAWN_INDEX + 1 spawn points: the end is the last one
C10_Witness ==
    /\ Returned("get_start_end_waypoints")
    /\ Len(fcall.spawns) = 5 /\ fcall.end_spawn_index = None
    /\ fret.kind = "return" /\ fret.end_idx = 4
    /\ fret.end_wp = GetWaypoint(fcall.spawns[5])

(***************************************************************************)
(* C1: over any sequence of main-loop iterations a walker's state changes  *)
(* only waiting -> cross_to_left, crossing -> pause (and only when the     *)
(* distance measured to its target is below WALKER_ARRIVAL_THRESHOLD_M),   *)
(* and pause -> the crossing opposite to the one that preceded the pause.  *)
(***************************************************************************)
Opposite(crossing) ==
    IF crossing = "cross_to_left" THEN "cross_to_right" ELSE "cross_to_left"

C1_WalkerCycle ==
    [][\A i \in DOMAIN walkers :
         LET a == walkers[i].state
             b == walkers'[i].state
         IN a # b =>
              \/ a = "waiting" /\ b = "cross_to_left"
              \/ /\ a \in {"cross_to_left", "cross_to_right"}
                 /\ b = "pause"
                 /\ walkers'[i].dist < 5
              \/ /\ a = "pause"
                 /\ walkers[i].prev \in {"cross_to_left", "cross_to_right"}
                 /\ b = Opposite(walkers[i].prev)]_vars

\* a walker has crossed left, paused, crossed right, paused and crosses left again
C1_Witness ==
    \E i \in DOMAIN walkers :
        /\ walkers[i].state = "cross_to_left"
        /\ walkers[i].prev = "pause"
        /\ walkers[i].target = "target_loc"

(***************************************************************************)
(* C3: with --max-steps N > 0 the loop never goes past N iterations, and   *)
(* unless it is interrupted (Ctrl+C, or an error of the tick) it ends      *)
(* after exactly N iterations and N world ticks, reporting N frames; with  *)
(* --max-steps 0 the step limit never ends the loop.                       *)
(***************************************************************************)
C3_MaxSteps ==
    /\ [](max_steps > 0 => (step <= max_steps /\ pticks <= max_steps))
    /\ []((ppc = "exited" /\ exit_reason \notin {"interrupt", "error"} /\ max_steps > 0)
            => (step = max_steps /\ pticks = max_steps /\ reported = max_steps))
    /\ [](max_steps = 0 => exit_reason # "max_steps")
    /\ [](max_steps > 0 => <>(ppc = "exited"))

\* the loop ran its N = 2 iterations and stopped at the limit
C3_Witness ==
    /\ ppc = "exited" /\ exit_reason = "max_steps"
    /\ max_steps = 2 /\ pticks = 2 /\ reported = 2

(***************************************************************************)
(* C4: the observer, chase and source frames of one world tick are all     *)
(* saved under the frame index set in save_step right before that tick,    *)
(* for every interleaving, timeouts of the waits included.                 *)
(***************************************************************************)
C4_SameIndexForOneTick ==
    \A c \in DOMAIN saved : saved[c] # None => Val(saved[c]).idx = Val(saved[c]).tick

(***************************************************************************)
(* C5: every exit from the warm-up and capture loops runs all four cleanup *)
(* steps (camera.destroy, vehicle.destroy, apply_settings(original),       *)
(* set_weather(default)), whichever of them raise; each step that does not *)
(* raise has its effect.                                                   *)
(***************************************************************************)
C5_CleanupOnEveryExit ==
    /\ exit_kind \notin {"running", "idle"} => dpc \in {"finally", "done"}
    /\ dpc = "done" =>
          /\ attempted = {"camera.destroy", "vehicle.destroy", "apply_settings", "set_weather"}
          /\ "camera.destroy" \notin cleanup_raised => world_state.camera = "destroyed"
          /\ "vehicle.destroy" \notin cleanup_raised => world_state.vehicle = "destroyed"
          /\ "apply_settings" \notin cleanup_raised => world_state.settings = "original"
          /\ "set_weather" \notin cleanup_raised => world_state.weather = "default"

\* a simulator time-out ended the capture loop and camera.destroy() raised
C5_Witness ==
    /\ dpc = "done" /\ exit_kind = "sim_timeout" /\ frame_index > 0
    /\ cleanup_raised = {"camera.destroy"}
    /\ world_state.vehicle = "destroyed" /\ world_state.settings = "original"

(***************************************************************************)
(* C6: the capture loop terminates; it never ticks more than MAX_FRAMES =  *)
(* 6000 times, does not tick again once the agent has reported done(), and *)
(* without an agent it ends, unless an error stops it, after exactly       *)
(* MAX_FRAMES ticks.                                                       *)
(***************************************************************************)
C6_CaptureLoopTerminates ==
    /\ <>(dpc = "done")
    /\ [](dticks <= 6000 /\ frame_index <= 6000)
    /\ [](done_early => (use_agent /\ exit_kind = "agent_done" /\ dticks = frame_index))
    /\ [][done_early => dticks' = dticks]_vars
    /\ []((dpc = "done" /\ exit_kind = "normal") => dticks = 6000)
    /\ []((dpc = "done" /\ ~use_agent /\ warm = 10)
            => exit_kind \in {"normal", "sim_timeout", "runtime_error", "frame_timeout"})

\* plain autopilot ran the full 6000 ticks
C6_Witness ==
    dpc = "done" /\ ~use_agent /\ exit_kind = "normal" /\ dticks = 6000

(***************************************************************************)
(* C7: the driver is BehaviorAgent when it can be imported, else           *)
(* BasicAgent when that can be imported (and BasicAgent is tried only      *)
(* then), else autopilot; with an agent autopilot is never enabled and the *)
(* agent's control is applied before every tick.                           *)
(***************************************************************************)
C7_DriverOrder ==
    /\ [](dpc \notin {"select_driver", "idle"} =>
            /\ (agent_kind = "behavior") <=> behavior_importable
            /\ basic_tried <=> ~behavior_importable
            /\ (agent_kind = "basic") <=> (~behavior_importable /\ basic_importable)
            /\ autopilot <=> (~behavior_importable /\ ~basic_importable)
            /\ use_agent <=> (agent_kind # "none"))
    /\ [](use_agent => ~autopilot)
    /\ [][(use_agent /\ (dticks' # dticks \/ warm' # warm)) => control_applied]_vars

\* BehaviorAgent missing, BasicAgent drives and has ticked in the capture loop
C7_Witness ==
    /\ agent_kind = "basic" /\ basic_tried /\ ~behavior_importable
    /\ ~autopilot /\ dticks = 2 /\ dpc = "capture_tick" /\ control_applied

(***************************************************************************)
(* C11: for every spawn-point list, 2Dplot_route.choose_start_end and      *)
(* closed_loop_drive's inline selection choose the start spawn and the end *)
(* spawn that route_plan.get_start_end_waypoints chooses with its default  *)
(* END_SPAWN_INDEX; on a map without spawn points none of them chooses.    *)
(***************************************************************************)
C11_SameStartEndInAllScripts ==
    (Returned("choose_start_end") \/ Returned("drive_start_end")) =>
        LET ref == get_start_end_waypoints(fcall.spawns, None)
        IN /\ fret.kind = ref.kind
           /\ fret.kind = "return" =>
                  /\ fret.start_wp = ref.start_wp
                  /\ fret.end_wp = ref.end_wp

\* more spawns than END_SPAWN_INDEX: the plotted end is spawn 10, not the last one
C11_Witness ==
    /\ Returned("choose_start_end")
    /\ Len(fcall.spawns) = MaxSpawns
    /\ fret.kind = "return"
    /\ fret.end_wp = GetWaypoint(fcall.spawns[END_SPAWN_INDEX + 1])
    /\ fret.start_wp = GetWaypoint(fcall.spawns[1])

(***************************************************************************)
(* C12: for every preset of weather_capture the swept parameter has the    *)
(* preset's start value at frame 0 and its end value at frame              *)
(* num_frames-1, moves by exactly step towards the end value between       *)
(* consecutive frames, and stays in the closed range between start and end.*)
(***************************************************************************)
C12_WeatherSweep ==
    (fcall.op = "weather_sweep" /\ fret # Pending) =>
        LET ps == PRESETS[fcall.preset]
            lo == IF ps.start <= ps.end THEN ps.start ELSE ps.end
            hi == IF ps.start <= ps.end THEN ps.end ELSE ps.start
        IN /\ fret.i = 0 => fret.value = ps.start
           /\ fret.i = ps.num_frames - 1 => fret.value = ps.end
           /\ fret.i > 0 =>
                  /\ fret.prev # None
                  /\ ps.start < ps.end => fret.value = Val(fret.prev) + ps.step
                  /\ ps.start > ps.end => fret.value = Val(fret.prev) - ps.step
           /\ lo <= fret.value /\ fret.value <= hi
           /\ ps.start # ps.end /\ ps.step > 0

\* the last frame of the sunset sweep: the sun is 18 degrees below the horizon
C12_Witness ==
    /\ fcall.op = "weather_sweep" /\ fcall.preset = "sunset"
    /\ fret # Pending
    /\ fret.i = 63 /\ fret.value = -18 /\ fret.prev = Some(-17)

(***************************************************************************)
(* C13: on every exit path of rig_capture_one.main the settings applied in *)
(* the finally block have the synchronous_mode and fixed_delta_seconds     *)
(* values that were in effect before the script enabled synchronous mode.  *)
(***************************************************************************)
C13_OriginalSettingsRestored ==
    (script = "rig_capture_one" /\ cpc = "exited") =>
        /\ capplied # None
        /\ Val(capplied).synchronous_mode = settings_before.synchronous_mode
        /\ Val(capplied).fixed_delta_seconds = settings_before.fixed_delta_seconds

(***************************************************************************)
(* C16: in weather_capture and actor_capture every exit path taken after   *)
(* synchronous mode has been applied destroys the spawned camera and       *)
(* vehicle and re-applies the original world settings: at exit a camera or *)
(* vehicle is alive only if its destroy() raised, apply_settings was       *)
(* called with the original settings, and unless that call raised the      *)
(* simulator has the settings it had before the script.                    *)
(***************************************************************************)
C16_CleanupAfterSynchronousMode ==
    (script \in CapScripts /\ cpc = "exited") =>
        /\ alive \cap {"camera", "vehicle"} \subseteq craised
        /\ "apply_settings" \in cattempted
        /\ capplied = Some(settings_before)
        /\ "apply_settings" \notin craised => server_settings = settings_before

(***************************************************************************)
(* C14: _walk_lane terminates after at most max(int(dist/step)+1, 2) steps *)
(* along the lane, dist being the straight-line distance from start to     *)
(* end, and returns a polyline whose first point is the start waypoint's   *)
(* (x, -y), whose last point is the end waypoint's (x, -y) and which has   *)
(* between 2 and max(int(dist/step)+1, 2)+1 points, also when wp.next()    *)
(* returns no successor.                                                   *)
(***************************************************************************)
WalkBound ==
    LET a == fcall.wp_start
        b == fcall.wp_end
        d2 == (a.x - b.x) * (a.x - b.x) + (a.y - b.y) * (a.y - b.y)
        q == CHOOSE k \in 0..d2 :
                 /\ (k * fcall.step) * (k * fcall.step) <= d2
                 /\ \A j \in (k + 1)..d2 : (j * fcall.step) * (j * fcall.step) > d2
    IN IF q + 1 >= 2 THEN q + 1 ELSE 2

C14_WalkLane ==
    /\ [](fcall.op = "_walk_lane" /\ fret # Pending =>
            /\ fret.n <= WalkBound
            /\ fret.kind = "return" =>
                   /\ fret.val[1] = <<fcall.wp_start.x, 0 - fcall.wp_start.y>>
                   /\ fret.val[Len(fret.val)] = <<fcall.wp_end.x, 0 - fcall.wp_end.y>>
                   /\ 2 <= Len(fret.val) /\ Len(fret.val) <= WalkBound + 1
                   /\ Len(fret.val) = fret.n + 1)
    /\ (fcall.op = "_walk_lane") ~> (fret.kind = "return")

\* wp.next() returns no successor at the first step: the polyline is start, end
C14_Witness ==
    /\ fcall.op = "_walk_lane" /\ fret.kind = "return"
    /\ fcall.wp_start = [x |-> 0, y |-> 1] /\ fcall.wp_end = [x |-> 6, y |-> -1]
    /\ fret.val = << <<0, -1>>, <<6, 1>> >>

\* the walk uses all its steps: four points along the lane, then the end point
C14_WitnessFullWalk ==
    /\ fcall.op = "_walk_lane" /\ fret.kind = "return"
    /\ fcall.wp_start = [x |-> 0, y |-> 1] /\ fcall.wp_end = [x |-> 6, y |-> -1]
    /\ Len(fret.val) = 5 /\ fret.n = 4

(***************************************************************************)
(* C15: the extent returned by capture_aerial is the square centred on the *)
(* centre of the map bounds with side max(x_max - x_min, y_max - y_min);   *)
(* it contains the whole bounds rectangle, and its left and right edges    *)
(* equal the plot x_min and x_max.                                         *)
(***************************************************************************)
C15_AerialExtent ==
    (Returned("capture_aerial") /\ fret.kind = "return" /\ fret.extent # None) =>
        LET b == fret.bounds
            x_lo == Val(fret.extent)[1]
            x_hi == Val(fret.extent)[2]
            y_lo == Val(fret.extent)[3]
            y_hi == Val(fret.extent)[4]
            w == b.x_max - b.x_min
            h == b.y_max - b.y_min
        IN /\ x_hi - x_lo = (IF w >= h THEN w ELSE h)
           /\ y_hi - y_lo = (IF w >= h THEN w ELSE h)
           /\ x_lo + x_hi = b.x_min + b.x_max
           /\ y_lo + y_hi = b.y_min + b.y_max
           /\ x_lo <= b.x_min /\ b.x_max <= x_hi
           /\ y_lo <= b.y_min /\ b.y_max <= y_hi
           /\ x_lo = b.x_min /\ x_hi = b.x_max

=============================================================================
